---- MODULE Spec2Model ----
(***************************************************************************)
(* Model of the change-tracking store (zuu.diffdict.DiffDict), the path    *)
(* addressing helpers (zuu.simple_dict, zuu.dict_patterns) and the         *)
(* synchronization engine (zuu.syncdict.SyncDict).                         *)
(*                                                                         *)
(* Values.  A Python value is a tagged record:                             *)
(*   scalar  [t |-> "s", ty, s, n]  ty = Python type, s = str(value),      *)
(*                                   n = numeric value (0 when none)       *)
(*   dict    [t |-> "d", d |-> function from keys to values]               *)
(*   list    [t |-> "l", l |-> sequence of values]                         *)
(* Key paths ("a/b/0") are sequences of segments (<<"a","b","0">>), i.e.   *)
(* the result of key.split(separator).  Dict insertion order and the       *)
(* timestamps of ledger entries are not represented.                       *)
(***************************************************************************)
EXTENDS Integers, Sequences, FiniteSets, TLC

VARIABLES
    data,         \* DiffDict.__data
    keysums,      \* DiffDict.__keysums : path -> fingerprint
    changes,      \* DiffDict.__changes : sequence of ledger entries
    callbacks,    \* DiffDict.__callbacks : sequence of callback ids
    useHexCheck,  \* DiffDict.__useHexCheck
    cbLog,        \* what the callbacks of the last operation observed
    baseline,     \* SyncDict.__baseline_keysums
    monitored,    \* hasattr(self, '_SyncDict__moves')
    moves,        \* SyncDict.__moves : sequence of <<removed, added>>
    additions,    \* SyncDict.__true_additions
    removals,     \* SyncDict.__true_removals
    watchList,    \* SyncDict.__watch_list
    desyncedList, \* SyncDict.__desynced_list
    files,        \* the documents on disk, by handle
    cacheKeys,    \* SyncDictMeta._fileCache keys, in insertion order
    cacheDoc,     \* SyncDictMeta._fileCache values
    stampFresh,   \* _fileModifiedStamp[h] = os.path.getmtime(h)
    written,      \* handles persisted by the last operation
    view,         \* the object a caller holds that DiffDict.changes returned
    op            \* the last operation, its arguments and its outcome

storeVars == <<data, keysums, changes, callbacks, useHexCheck, cbLog>>
syncVars == <<baseline, monitored, moves, additions, removals, watchList,
              desyncedList, files, cacheKeys, cacheDoc, stampFresh, written>>
clientVars == <<view>>
vars == <<data, keysums, changes, callbacks, useHexCheck, cbLog, baseline,
          monitored, moves, additions, removals, watchList, desyncedList,
          files, cacheKeys, cacheDoc, stampFresh, written, view, op>>

(***************************************************************************)
(* Bounds of the model.                                                    *)
(***************************************************************************)
MaxChanges == 2
MaxCallbacks == 2
MaxSyncEdits == 1
MaxDesynced == 2
\* SyncDictMeta._maxSize, 256 in the source, scaled to the handles of the model
MaxSize == 2
\* ledger length up to which the reconciliation model starts an operation
MaxTrackChanges == 2
\* ledger length up to which the ledger model appends
MaxLedger == 2

(***************************************************************************)
(* Python values.                                                          *)
(***************************************************************************)
Scalar(ty, s, n) == [t |-> "s", ty |-> ty, s |-> s, n |-> n]
Dict(f) == [t |-> "d", d |-> f]
List(q) == [t |-> "l", l |-> q]
EmptyFn == [k \in {} |-> 0]
EmptyDict == Dict(EmptyFn)
EmptyList == List(<<>>)

Int1 == Scalar("int", "1", 1)
Int2 == Scalar("int", "2", 2)
Str1 == Scalar("str", "1", 0)
StrX == Scalar("str", "x", 0)
StrY == Scalar("str", "y", 0)
StrZ == Scalar("str", "z", 0)
BoolTrue == Scalar("bool", "True", 1)
PyNone == Scalar("none", "None", 0)

\* the sentinels _throw_error / _doesNotExist and a raised exception
DoesNotExist == [t |-> "dne"]
Raised(kind) == [t |-> "raise", kind |-> kind]
IsRaised(v) == v.t = "raise"

\* d[k] = v on a dict's mapping
MapSet(f, k, v) == [x \in (DOMAIN f) \cup {k} |-> IF x = k THEN v ELSE f[x]]
\* del d[k]
MapDel(f, k) == [x \in (DOMAIN f) \ {k} |-> f[x]]
\* list.pop(i), i counted from 0
SeqDel(q, i) == [j \in 1..(Len(q) - 1) |-> IF j <= i THEN q[j] ELSE q[j + 1]]

\* str.isdigit() and int() on the segments of the model
IsDigit(k) == k \in {"0", "1", "2"}
IntOf(k) == CASE k = "0" -> 0 [] k = "1" -> 1 [] k = "2" -> 2 [] OTHER -> -1
\* str(i) of a list index
IdxStr(i) == CASE i = 0 -> "0" [] i = 1 -> "1" [] i = 2 -> "2" [] OTHER -> "9"

IsNumeric(v) == v.t = "s" /\ v.ty \in {"int", "float", "bool"}

\* Python's == on values: numbers compare by value across int/float/bool,
\* containers compare element-wise, a sentinel object equals nothing else.
RECURSIVE PyEq(_, _)
PyEq(v, w) ==
    IF v.t # w.t THEN FALSE
    ELSE IF v.t = "s" THEN
        IF IsNumeric(v) /\ IsNumeric(w) THEN v.n = w.n
        ELSE v.ty = w.ty /\ v.s = w.s
    ELSE IF v.t = "d" THEN
        /\ DOMAIN v.d = DOMAIN w.d
        /\ \A k \in DOMAIN v.d : PyEq(v.d[k], w.d[k])
    ELSE IF v.t = "l" THEN
        /\ Len(v.l) = Len(w.l)
        /\ \A i \in 1..Len(v.l) : PyEq(v.l[i], w.l[i])
    ELSE FALSE

(***************************************************************************)
(* Path addressing (zuu.simple_dict).  A function that mutates its         *)
(* argument returns the mutated container together with its outcome: the   *)
(* mutation made before an exception is raised stays.                      *)
(***************************************************************************)
RECURSIVE deep_get(_, _, _)
deep_get(dct, key, default) ==
    IF key = <<>> THEN dct
    ELSE LET k == Head(key) IN
        IF dct.t = "d" /\ k \in DOMAIN dct.d
            THEN deep_get(dct.d[k], Tail(key), default)
        ELSE IF dct.t = "l" /\ IsDigit(k) /\ IntOf(k) < Len(dct.l)
            THEN deep_get(dct.l[IntOf(k) + 1], Tail(key), default)
        ELSE default

RECURSIVE deep_set(_, _, _)
deep_set(dct, key, value) ==
    LET k == Head(key) IN
    IF Len(key) = 1 THEN
        IF dct.t = "d"
            THEN [doc |-> Dict(MapSet(dct.d, k, value)), err |-> "none"]
        ELSE IF dct.t = "l" /\ IsDigit(k) THEN
            IF IntOf(k) < Len(dct.l)
                THEN [doc |-> List([dct.l EXCEPT ![IntOf(k) + 1] = value]),
                      err |-> "none"]
                ELSE [doc |-> dct, err |-> "IndexError"]
        ELSE [doc |-> dct, err |-> "KeyError"]
    ELSE IF dct.t = "d" THEN
        LET child == IF k \notin DOMAIN dct.d \/ dct.d[k].t \notin {"d", "l"}
                         THEN IF IsDigit(k) THEN EmptyList ELSE EmptyDict
                         ELSE dct.d[k]
            r == deep_set(child, Tail(key), value)
        IN [doc |-> Dict(MapSet(dct.d, k, r.doc)), err |-> r.err]
    ELSE IF dct.t = "l" /\ IsDigit(k) THEN
        IF Len(dct.l) <= IntOf(k)
            THEN [doc |-> dct, err |-> "IndexError"]
            ELSE LET child == IF dct.l[IntOf(k) + 1].t # "d"
                                  THEN EmptyDict ELSE dct.l[IntOf(k) + 1]
                     r == deep_set(child, Tail(key), value)
                 IN [doc |-> List([dct.l EXCEPT ![IntOf(k) + 1] = r.doc]),
                     err |-> r.err]
    ELSE [doc |-> dct, err |-> "KeyError"]

RECURSIVE deep_pop(_, _, _)
deep_pop(dct, key, default) ==
    LET k == Head(key) IN
    IF Len(key) = 1 THEN
        IF dct.t = "d" THEN
            IF k \in DOMAIN dct.d
                THEN [doc |-> Dict(MapDel(dct.d, k)), ret |-> dct.d[k]]
                ELSE [doc |-> dct, ret |-> default]
        ELSE IF dct.t = "l" /\ IsDigit(k) /\ IntOf(k) < Len(dct.l)
            THEN [doc |-> List(SeqDel(dct.l, IntOf(k))),
                  ret |-> dct.l[IntOf(k) + 1]]
        ELSE [doc |-> dct, ret |-> default]
    ELSE IF dct.t = "d" /\ k \in DOMAIN dct.d THEN
        LET r == deep_pop(dct.d[k], Tail(key), default)
        IN [doc |-> Dict(MapSet(dct.d, k, r.doc)), ret |-> r.ret]
    ELSE IF dct.t = "l" /\ IsDigit(k) /\ IntOf(k) < Len(dct.l) THEN
        LET r == deep_pop(dct.l[IntOf(k) + 1], Tail(key), default)
        IN [doc |-> List([dct.l EXCEPT ![IntOf(k) + 1] = r.doc]),
            ret |-> r.ret]
    ELSE [doc |-> dct, ret |-> default]

\* zuu.dict_patterns.extract_nested_keys, collected into a set
RECURSIVE extract_nested_keys(_, _)
extract_nested_keys(dct, current) ==
    IF dct.t = "d" THEN
        UNION {extract_nested_keys(dct.d[k], Append(current, k)) :
                   k \in DOMAIN dct.d}
    ELSE IF dct.t = "l" THEN
        UNION {extract_nested_keys(dct.l[i], Append(current, IdxStr(i - 1))) :
                   i \in 1..Len(dct.l)}
    ELSE {current}

LeafPaths(doc) == extract_nested_keys(doc, <<>>)

(***************************************************************************)
(* Fingerprints (DiffDict.__compare).  The literal text of a str, int,     *)
(* float or bool; the digest of str(value) of anything else.  The digest   *)
(* is a tagged copy of the text it is taken of: equal texts give equal     *)
(* digests, and a digest never equals a literal of the model.              *)
(***************************************************************************)
\* hashFunc(str(v).encode()).hexdigest(): str() of None or of a container is
\* one-to-one on the values of the model, so v stands for its text
hashFunc(v) == [k |-> "sha1", of |-> v]
Literal(text) == [k |-> "lit", s |-> text]
Fingerprint(v) ==
    IF v.t = "s" /\ v.ty \in {"str", "int", "float", "bool"}
        THEN Literal(v.s)
        ELSE hashFunc(v)
Absent == [k |-> "absent"]

DiffSet(key, previous, new) == [key |-> key, previous |-> previous, new |-> new]

(***************************************************************************)
(* The tracked store (zuu.diffdict.DiffDict).                              *)
(***************************************************************************)
\* DiffDict.__compare on the cache ks and the ledger ch: the new cache, the
\* new ledger and whether a change was recorded (the callbacks run iff it was)
compare(ks, ch, key, val1, val2, hash1In) ==
    LET hash1a == IF key \in DOMAIN ks THEN ks[key] ELSE hash1In
        hash1 == IF val1 # DoesNotExist /\ hash1a = DoesNotExist
                     THEN Fingerprint(val1) ELSE hash1a
        hash2 == IF val2 # DoesNotExist THEN Fingerprint(val2)
                                        ELSE DoesNotExist
    IN  IF hash1 # DoesNotExist /\ hash2 # DoesNotExist /\ hash1 = hash2
            THEN [ks |-> ks, ch |-> ch, recorded |-> FALSE]
            ELSE [ks |-> IF hash1 # DoesNotExist /\ val2 = DoesNotExist
                             THEN MapDel(ks, key)
                         ELSE IF hash2 # DoesNotExist
                             THEN MapSet(ks, key, hash2)
                         ELSE ks,
                  ch |-> Append(ch, DiffSet(key,
                            IF hash1 # DoesNotExist THEN hash1 ELSE Absent,
                            IF hash2 # DoesNotExist THEN hash2 ELSE Absent)),
                  recorded |-> TRUE]

\* the callbacks run in the reverse of their registration order
RunCallbacksReversed(cbs, ch, doc) ==
    [i \in 1..Len(cbs) |->
        [cb |-> cbs[Len(cbs) + 1 - i], last |-> ch[Len(ch)], doc |-> doc]]

\* the callbacks run in registration order; each sees the store as it is when
\* __compare calls it: the ledger with the new entry, the document doc
RunCallbacks(cbs, ch, doc) ==
    [i \in 1..Len(cbs) |-> [cb |-> cbs[i], last |-> ch[Len(ch)], doc |-> doc]]

\* self.__data.get(key, _doesNotExist): the whole key string as a top-level key
TopGet(doc, key) ==
    IF Len(key) = 1 /\ key[1] \in DOMAIN doc.d THEN doc.d[key[1]]
                                                ELSE DoesNotExist

OpRec(name, res, ret) == [name |-> name, res |-> res, ret |-> ret]

\* no object returned by DiffDict.changes is held
NoView == [held |-> FALSE]

\* what __setitem__ does after its early return
SetBody(key, value) ==
    LET c == compare(keysums, changes, key, TopGet(data, key), value,
                     DoesNotExist)
        r == deep_set(data, key, value)
    IN  /\ keysums' = c.ks
        /\ changes' = c.ch
        /\ cbLog' = IF c.recorded THEN RunCallbacks(callbacks, c.ch, data)
                                  ELSE <<>>
        /\ data' = IF c.recorded THEN r.doc ELSE data
        /\ op' = OpRec("set", IF ~c.recorded THEN "same"
                              ELSE IF r.err = "none" THEN "written"
                              ELSE r.err,
                       DoesNotExist)

\* DiffDict.__setitem__
SetItem(key, value) ==
    /\ IF ~useHexCheck /\ PyEq(TopGet(data, key), value)
           THEN /\ op' = OpRec("set", "equal", DoesNotExist)
                /\ cbLog' = <<>>
                /\ UNCHANGED <<data, keysums, changes>>
           ELSE SetBody(key, value)
    /\ UNCHANGED <<callbacks, useHexCheck>>

\* pop with __compare called before the existence check
PopComparesFirst(key, default) ==
    LET previousVal == deep_get(data, key, DoesNotExist)
        c == compare(keysums, changes, key, previousVal, DoesNotExist,
                     DoesNotExist)
        r == deep_pop(data, key, default)
    IN  /\ keysums' = c.ks
        /\ changes' = c.ch
        /\ cbLog' = IF c.recorded THEN RunCallbacks(callbacks, c.ch, data)
                                  ELSE <<>>
        /\ data' = r.doc
        /\ op' = IF previousVal # DoesNotExist
                     THEN OpRec("pop", "popped", previousVal)
                  ELSE IF default = DoesNotExist
                     THEN OpRec("pop", "KeyError", DoesNotExist)
                  ELSE OpRec("pop", "default", default)
        /\ UNCHANGED <<callbacks, useHexCheck>>

\* DiffDict.pop (default = DoesNotExist: no default supplied)
Pop(key, default) ==
    LET previousVal == deep_get(data, key, DoesNotExist)
        c == compare(keysums, changes, key, previousVal, DoesNotExist,
                     DoesNotExist)
        r == deep_pop(data, key, Raised("KeyError"))
    IN  /\ IF previousVal = DoesNotExist
               THEN /\ op' = IF default = DoesNotExist
                                 THEN OpRec("pop", "KeyError", DoesNotExist)
                                 ELSE OpRec("pop", "default", default)
                    /\ cbLog' = <<>>
                    /\ UNCHANGED <<data, keysums, changes>>
               ELSE /\ keysums' = c.ks
                    /\ changes' = c.ch
                    /\ cbLog' = IF c.recorded
                                    THEN RunCallbacks(callbacks, c.ch, data)
                                    ELSE <<>>
                    /\ data' = r.doc
                    /\ op' = OpRec("pop", "popped", previousVal)
        /\ UNCHANGED <<callbacks, useHexCheck>>

\* DiffDict.add_callback
AddCallback ==
    /\ Len(callbacks) < MaxCallbacks
    /\ callbacks' = Append(callbacks, Len(callbacks) + 1)
    /\ cbLog' = <<>>
    /\ op' = OpRec("add_callback", "ok", DoesNotExist)
    /\ UNCHANGED <<data, keysums, changes, useHexCheck>>

\* the useHexCheck setter
SetUseHexCheck(value) ==
    /\ useHexCheck # value
    /\ useHexCheck' = value
    /\ cbLog' = <<>>
    /\ op' = OpRec("useHexCheck", "ok", DoesNotExist)
    /\ UNCHANGED <<data, keysums, changes, callbacks>>

(***************************************************************************)
(* External modification and reconciliation of the store.                  *)
(***************************************************************************)
\* a caller writes into the document through DiffDict.dataref, past the
\* store's API: no comparison, no ledger entry, no callback
DatarefSet(key, value) ==
    LET r == deep_set(data, key, value)
    IN  /\ r.err = "none"
        /\ r.doc # data
        /\ data' = r.doc
        /\ cbLog' = <<>>
        /\ op' = OpRec("dataref_set", "ok", DoesNotExist)
        /\ UNCHANGED <<keysums, changes, callbacks, useHexCheck>>

\* a caller deletes from the document through DiffDict.dataref
DatarefPop(key) ==
    /\ deep_get(data, key, DoesNotExist) # DoesNotExist
    /\ data' = deep_pop(data, key, DoesNotExist).doc
    /\ cbLog' = <<>>
    /\ op' = OpRec("dataref_pop", "ok", DoesNotExist)
    /\ UNCHANGED <<keysums, changes, callbacks, useHexCheck>>

\* updateAtKey recording an entry without comparing the fingerprints
updateAtKeyAlwaysRecords(ks, ch, doc, key) ==
    LET current_value == deep_get(doc, key, DoesNotExist)
        old_hash == IF key \in DOMAIN ks THEN ks[key] ELSE Absent
    IN  IF current_value = DoesNotExist
            THEN [ks |-> ks, ch |-> ch, recorded |-> FALSE, err |-> "KeyError"]
            ELSE [ks |-> MapSet(ks, key, Fingerprint(current_value)),
                  ch |-> Append(ch, DiffSet(key, old_hash,
                                            Fingerprint(current_value))),
                  recorded |-> TRUE, err |-> "none"]

\* the body of DiffDict.updateAtKey on the cache ks and the ledger ch of the
\* document doc: err is "KeyError" when the key does not resolve
updateAtKey(ks, ch, doc, key) ==
    LET current_value == deep_get(doc, key, DoesNotExist)
        old_hash == IF key \in DOMAIN ks THEN ks[key] ELSE DoesNotExist
        c == compare(ks, ch, key, current_value, current_value, old_hash)
    IN  IF current_value = DoesNotExist
            THEN [ks |-> ks, ch |-> ch, recorded |-> FALSE, err |-> "KeyError"]
            ELSE [ks |-> c.ks, ch |-> c.ch, recorded |-> c.recorded,
                  err |-> "none"]

\* DiffDict.updateAtKey
UpdateAtKey(key) ==
    LET u == updateAtKey(keysums, changes, data, key)
    IN  /\ keysums' = u.ks
        /\ changes' = u.ch
        /\ cbLog' = IF u.recorded THEN RunCallbacks(callbacks, u.ch, data)
                                  ELSE <<>>
        /\ op' = OpRec("updateAtKey",
                       IF u.err # "none" THEN u.err
                       ELSE IF u.recorded THEN "recorded" ELSE "same",
                       DoesNotExist)
        /\ UNCHANGED <<data, callbacks, useHexCheck>>

\* the loop "for key in tracked_keys" of update_all, in the order given
RECURSIVE CheckTracked(_, _, _, _)
CheckTracked(acc, order, cbs, doc) ==
    IF order = <<>> THEN acc
    ELSE LET key == Head(order)
             u == updateAtKey(acc.ks, acc.ch, doc, key)
         IN  CheckTracked(
                 IF u.err = "KeyError"
                     THEN [acc EXCEPT !.orphaned = @ \cup {key},
                                      !.ks = MapDel(acc.ks, key)]
                     ELSE [acc EXCEPT
                              !.ks = u.ks,
                              !.ch = u.ch,
                              !.cb = IF u.recorded
                                         THEN @ \o RunCallbacks(cbs, u.ch, doc)
                                         ELSE @,
                              !.changed = IF u.recorded THEN @ \cup {key}
                                                        ELSE @],
                 Tail(order), cbs, doc)

\* the loop "for key in new_keys" of update_all, in the order given
RECURSIVE TrackNew(_, _, _, _)
TrackNew(acc, order, cbs, doc) ==
    IF order = <<>> THEN acc
    ELSE LET key == Head(order)
             value == doc.d[key[1]]
             c == compare(acc.ks, acc.ch, key, DoesNotExist, value,
                          DoesNotExist)
         IN  TrackNew(
                 [acc EXCEPT
                     !.ks = c.ks,
                     !.ch = c.ch,
                     !.cb = IF c.recorded THEN @ \o RunCallbacks(cbs, c.ch, doc)
                                          ELSE @,
                     !.new_tracked = @ \cup {key}],
                 Tail(order), cbs, doc)

\* the keys update_all(include_new_keys=True) starts tracking: the top-level
\* keys of the document that the cache ks does not hold
new_keys(ks, doc) == {<<k>> : k \in DOMAIN doc.d} \ DOMAIN ks

\* the check of the tracked keys leaving the orphaned keys in the cache
AfterTrackedKeepsOrphans(order) ==
    LET r == CheckTracked([ks |-> keysums, ch |-> changes, cb |-> <<>>,
                           changed |-> {}, new_tracked |-> {},
                           orphaned |-> {}],
                          order, callbacks, data)
    IN  [r EXCEPT !.ks = [k \in (DOMAIN r.ks) \cup r.orphaned |->
                             IF k \in DOMAIN r.ks THEN r.ks[k]
                                                  ELSE keysums[k]]]

\* the state of update_all once the tracked keys have been checked
AfterTracked(order) ==
    CheckTracked([ks |-> keysums, ch |-> changes, cb |-> <<>>,
                  changed |-> {}, new_tracked |-> {}, orphaned |-> {}],
                 order, callbacks, data)

\* DiffDict.update_all, for one order of the tracked keys and one iteration
\* order of the set new_keys; the three lists of the result are kept as sets
UpdateAll(include_new_keys, order, newOrder) ==
    LET t == AfterTracked(order)
        r == IF include_new_keys THEN TrackNew(t, newOrder, callbacks, data)
                                 ELSE t
    IN  /\ keysums' = r.ks
        /\ changes' = r.ch
        /\ cbLog' = r.cb
        /\ op' = OpRec("update_all", IF include_new_keys THEN "new" ELSE "old",
                       [changed |-> r.changed, new_tracked |-> r.new_tracked,
                        orphaned |-> r.orphaned])
        /\ UNCHANGED <<data, callbacks, useHexCheck>>

\* prune_changes keeping the oldest entries instead of the newest
PruneKeepsOldest(keep) ==
    /\ changes' = IF keep <= 0 THEN <<>>
                  ELSE SubSeq(changes, 1,
                              IF keep < Len(changes) THEN keep
                                                     ELSE Len(changes))
    /\ cbLog' = <<>>
    /\ op' = OpRec("prune_changes", "ok", DoesNotExist)
    /\ UNCHANGED <<data, keysums, callbacks, useHexCheck>>

\* DiffDict.prune_changes: self.__changes becomes a new list
PruneChanges(keep) ==
    /\ changes' = IF keep <= 0 THEN <<>>
                  ELSE SubSeq(changes,
                              IF keep < Len(changes)
                                  THEN Len(changes) - keep + 1 ELSE 1,
                              Len(changes))
    /\ cbLog' = <<>>
    /\ op' = OpRec("prune_changes", "ok", DoesNotExist)
    /\ UNCHANGED <<data, keysums, callbacks, useHexCheck>>

(***************************************************************************)
(* The object DiffDict.changes returns: a MappingProxyType over a dict     *)
(* whose "all" is the list self.__changes itself and whose "last" is its   *)
(* last entry at the time of the call.  live says that "all" still is the  *)
(* store's list; all holds the list's content once it no longer is.        *)
(***************************************************************************)
\* the "last" of the property
LastOf(ch) == IF ch # <<>> THEN ch[Len(ch)] ELSE PyNone

\* the property DiffDict.changes, fetched and held by the caller
FetchChanges ==
    /\ view' = [held |-> TRUE, live |-> TRUE, all |-> <<>>,
                last |-> LastOf(changes)]
    /\ cbLog' = <<>>
    /\ op' = OpRec("changes", "ok", DoesNotExist)
    /\ UNCHANGED <<data, keysums, changes, callbacks, useHexCheck>>

\* what view["all"] reads as
ViewAll == IF view.live THEN changes ELSE view.all

\* the held object once prune_changes has rebound self.__changes
Detached(v, ch) ==
    IF v.held /\ v.live THEN [v EXCEPT !.live = FALSE, !.all = ch] ELSE v

\* view["all"] = value on the held object: a mappingproxy does not support
\* item assignment
ViewAssign ==
    /\ view.held
    /\ cbLog' = <<>>
    /\ op' = OpRec("view_assign", "TypeError", DoesNotExist)
    /\ UNCHANGED <<data, keysums, changes, callbacks, useHexCheck, view>>

\* view["all"].append(entry) on the held object: the list is an ordinary list
ViewAppend(entry) ==
    /\ view.held
    /\ IF view.live
           THEN changes' = Append(changes, entry) /\ UNCHANGED view
           ELSE view' = [view EXCEPT !.all = Append(@, entry)]
                /\ UNCHANGED changes
    /\ cbLog' = <<>>
    /\ op' = OpRec("view_append", "ok", DoesNotExist)
    /\ UNCHANGED <<data, keysums, callbacks, useHexCheck>>

(***************************************************************************)
(* The synchronization engine (zuu.syncdict.SyncDict).                     *)
(***************************************************************************)
Handles == {"h1", "h2"}
BaseHandle == "base"
NoFile == [t |-> "nofile"]

Range(q) == {q[i] : i \in 1..Len(q)}
\* the orders in which a Python set may be iterated
Perms(S) == {q \in [1..Cardinality(S) -> S] :
                 \A i, j \in 1..Cardinality(S) : q[i] = q[j] => i = j}
SeqRemove(q, x) == SelectSeq(q, LAMBDA y : y # x)

\* DiffDict.update_keysums is called by SyncDict and is not part of the
\* sources: the fresh leaf-path -> fingerprint snapshot of the document
update_keysums(doc) ==
    [p \in LeafPaths(doc) |-> Fingerprint(deep_get(doc, p, DoesNotExist))]

\* while len(self._fileCache) > self._maxSize: self._fileCache.popitem()
RECURSIVE Evict(_, _)
Evict(ck, cd) ==
    IF Len(ck) > MaxSize
        THEN Evict(SubSeq(ck, 1, Len(ck) - 1), MapDel(cd, ck[Len(ck)]))
        ELSE [ck |-> ck, cd |-> cd]

\* SyncDictMeta._getCacheFile on the cache (ck, cd, sf) and the disk
_getCacheFile(ck, cd, sf, disk, path) ==
    IF path \in DOMAIN sf /\ path \in DOMAIN cd /\ sf[path]
        THEN [ck |-> ck, cd |-> cd, sf |-> sf, raw |-> cd[path]]
        ELSE LET e == Evict(IF path \in DOMAIN cd THEN ck ELSE Append(ck, path),
                            MapSet(cd, path, disk[path]))
             IN [ck |-> e.ck, cd |-> e.cd, sf |-> MapSet(sf, path, TRUE),
                 raw |-> disk[path]]

\* write_json(path, doc): the file changes and so does its modification time
WriteStamp(sf, path) == IF path \in DOMAIN sf THEN [sf EXCEPT ![path] = FALSE]
                                              ELSE sf

\* SyncDict._cleanup_empty_containers
RECURSIVE _cleanup_recursive(_)
_cleanup_recursive(obj) ==
    IF obj.t # "d" THEN obj
    ELSE LET sub == [k \in DOMAIN obj.d |->
                        IF obj.d[k].t = "d" THEN _cleanup_recursive(obj.d[k])
                                            ELSE obj.d[k]]
             keys_to_remove == {k \in DOMAIN obj.d :
                                   obj.d[k].t = "d" /\ sub[k].d = EmptyFn}
         IN Dict([k \in (DOMAIN obj.d) \ keys_to_remove |-> sub[k]])

\* one iteration of "for removed_key, added_key in self.__moves.items()"
ApplyMove(cur, original_data, mv) ==
    LET translated_value == deep_get(original_data, mv[1], PyNone)
        s == deep_set(cur.doc, mv[2], translated_value)
    IN  IF cur.err # "none" \/ translated_value = PyNone THEN cur
        ELSE IF s.err # "none" THEN s
        ELSE [doc |-> deep_pop(s.doc, mv[1], PyNone).doc, err |-> "none"]

\* one iteration of "for added_key in self.__true_additions"
ApplyAddition(cur, original_data, base, added_key) ==
    LET existing_value == deep_get(original_data, added_key, PyNone)
        base_value == deep_get(base, added_key, Raised("KeyError"))
    IN  IF cur.err # "none" \/ existing_value # PyNone THEN cur
        ELSE IF IsRaised(base_value) THEN [doc |-> cur.doc, err |-> "KeyError"]
        ELSE deep_set(cur.doc, added_key, base_value)

\* one iteration of "for removed_key in self.__true_removals"
ApplyRemoval(cur, removed_key) ==
    IF cur.err # "none" THEN cur
    ELSE [doc |-> deep_pop(cur.doc, removed_key, PyNone).doc, err |-> "none"]

RECURSIVE ApplyMoves(_, _, _)
ApplyMoves(cur, original_data, mvs) ==
    IF mvs = <<>> THEN cur
    ELSE ApplyMoves(ApplyMove(cur, original_data, Head(mvs)), original_data,
                    Tail(mvs))

RECURSIVE ApplyAdditions(_, _, _, _)
ApplyAdditions(cur, original_data, base, keys) ==
    IF keys = <<>> THEN cur
    ELSE ApplyAdditions(ApplyAddition(cur, original_data, base, Head(keys)),
                        original_data, base, Tail(keys))

RECURSIVE ApplyRemovals(_, _)
ApplyRemovals(cur, keys) ==
    IF keys = <<>> THEN cur
    ELSE ApplyRemovals(ApplyRemoval(cur, Head(keys)), Tail(keys))

\* the body of the try block up to write_json, on the loaded document
Reconcile(watched_data, base, mvs, addOrder, remOrder) ==
    LET m == ApplyMoves([doc |-> watched_data, err |-> "none"], watched_data,
                        mvs)
        a == ApplyAdditions(m, watched_data, base, addOrder)
        r == ApplyRemovals(a, remOrder)
    IN  IF r.err # "none" THEN r
        ELSE [doc |-> _cleanup_recursive(r.doc), err |-> "none"]

\* an except branch that records the failure and leaves the watch list alone
OnFailureKeepsWatching(st, watch_path) ==
    [st EXCEPT !.desynced = IF watch_path \in Range(st.desynced)
                                THEN st.desynced
                                ELSE Append(st.desynced, watch_path),
               !.raised = st.raised \cup {watch_path}]

\* the except branch: the handle moves to the desynced list
OnFailure(st, watch_path) ==
    [st EXCEPT !.watch = SeqRemove(st.watch, watch_path),
               !.desynced = IF watch_path \in Range(st.desynced)
                                THEN st.desynced
                                ELSE Append(st.desynced, watch_path),
               !.raised = st.raised \cup {watch_path}]

\* one iteration of "for watch_path in self.__watch_list[:]".  The loaded
\* document is the cached object when the cache kept it, and then every
\* change made to it, also before an exception, is a change of the cache.
ProcessOne(st, watch_path, base, mvs, addOrder, remOrder, unreadable) ==
    LET c == _getCacheFile(st.ck, st.cd, st.sf, st.files, watch_path)
        r == Reconcile(c.raw, base, mvs, addOrder, remOrder)
        cd2 == IF watch_path \in DOMAIN c.cd
                   THEN [c.cd EXCEPT ![watch_path] = r.doc] ELSE c.cd
        loaded == [st EXCEPT !.ck = c.ck, !.cd = cd2, !.sf = c.sf]
    IN  IF watch_path \in unreadable THEN OnFailure(st, watch_path)
        ELSE IF r.err # "none" THEN OnFailure(loaded, watch_path)
        ELSE [loaded EXCEPT !.files = [st.files EXCEPT ![watch_path] = r.doc],
                            !.sf = WriteStamp(c.sf, watch_path),
                            !.written = st.written \cup {watch_path}]

RECURSIVE ProcessAll(_, _, _, _, _, _, _)
ProcessAll(st, todo, base, mvs, addOrder, remOrder, unreadable) ==
    IF todo = <<>> THEN st
    ELSE ProcessAll(ProcessOne(st, Head(todo), base, mvs, addOrder, remOrder,
                               unreadable),
                    Tail(todo), base, mvs, addOrder, remOrder, unreadable)

\* SyncDict.applyChanges.  addOrder and remOrder are the iteration orders of
\* the two sets; unreadable are the handles whose file cannot be loaded.
ApplyChanges(addOrder, remOrder, unreadable) ==
    LET st0 == [ck |-> cacheKeys, cd |-> cacheDoc, sf |-> stampFresh,
                files |-> files, watch |-> watchList,
                desynced |-> desyncedList, written |-> {}, raised |-> {}]
        st == IF monitored
                  THEN ProcessAll(st0, watchList, data, moves, addOrder,
                                  remOrder, unreadable)
                  ELSE st0
    IN  /\ cacheKeys' = st.ck
        /\ cacheDoc' = st.cd
        /\ stampFresh' = st.sf
        /\ files' = st.files
        /\ watchList' = st.watch
        /\ desyncedList' = st.desynced
        /\ written' = st.written
        /\ op' = OpRec("applyChanges",
                       IF monitored THEN "applied" ELSE "nothing",
                       [t |-> "raised", hs |-> st.raised])
        /\ UNCHANGED <<baseline, monitored, moves, additions, removals>>
        /\ UNCHANGED storeVars

\* the loop "for removed_key in removed_keys" of monitor, in the order given
RECURSIVE DetectMoves(_, _, _, _)
DetectMoves(acc, order, base_keysums, current_checksum_to_key) ==
    IF order = <<>> THEN acc
    ELSE LET removed_key == Head(order)
             removed_checksum == base_keysums[removed_key]
             added_key == current_checksum_to_key[removed_checksum]
             isMove == /\ removed_checksum \in DOMAIN current_checksum_to_key
                       /\ added_key \in acc.remaining_added
         IN DetectMoves(
                IF isMove
                    THEN [mv |-> Append(acc.mv, <<removed_key, added_key>>),
                          remaining_added |-> acc.remaining_added \ {added_key},
                          remaining_removed |->
                              acc.remaining_removed \ {removed_key}]
                    ELSE acc,
                Tail(order), base_keysums, current_checksum_to_key)

\* the reverse indexes {checksum: key for key, checksum in current.items()}
\* may be: one of the keys that carry the checksum, for every checksum
ReverseIndexes(current_keysums) ==
    {f \in [{current_keysums[p] : p \in DOMAIN current_keysums} ->
                DOMAIN current_keysums] :
         \A c \in DOMAIN f : current_keysums[f[c]] = c}

\* monitor without "self.__baseline_keysums = current_keysums"
MonitorKeepsBaseline(order, current_checksum_to_key) ==
    LET current_keysums == update_keysums(data)
        added_keys == (DOMAIN current_keysums) \ (DOMAIN baseline)
        removed_keys == (DOMAIN baseline) \ (DOMAIN current_keysums)
        res == DetectMoves([mv |-> <<>>, remaining_added |-> added_keys,
                            remaining_removed |-> removed_keys],
                           order, baseline, current_checksum_to_key)
    IN  /\ moves' = res.mv
        /\ additions' = res.remaining_added
        /\ removals' = res.remaining_removed
        /\ monitored' = TRUE
        /\ written' = {}
        /\ op' = OpRec("monitor", "ok", DoesNotExist)
        /\ UNCHANGED <<baseline, watchList, desyncedList, files, cacheKeys,
                       cacheDoc, stampFresh>>
        /\ UNCHANGED storeVars

\* monitor reporting every added key as an addition, the moved ones too
MonitorKeepsMovedAdded(order, current_checksum_to_key) ==
    LET current_keysums == update_keysums(data)
        added_keys == (DOMAIN current_keysums) \ (DOMAIN baseline)
        removed_keys == (DOMAIN baseline) \ (DOMAIN current_keysums)
        res == DetectMoves([mv |-> <<>>, remaining_added |-> added_keys,
                            remaining_removed |-> removed_keys],
                           order, baseline, current_checksum_to_key)
    IN  /\ moves' = res.mv
        /\ additions' = added_keys
        /\ removals' = res.remaining_removed
        /\ baseline' = current_keysums
        /\ monitored' = TRUE
        /\ written' = {}
        /\ op' = OpRec("monitor", "ok", DoesNotExist)
        /\ UNCHANGED <<watchList, desyncedList, files, cacheKeys, cacheDoc,
                       stampFresh>>
        /\ UNCHANGED storeVars

\* SyncDict.monitor, for one iteration order of removed_keys and one reverse
\* index
MonitorBody(order, current_checksum_to_key) ==
    LET current_keysums == update_keysums(data)
        added_keys == (DOMAIN current_keysums) \ (DOMAIN baseline)
        removed_keys == (DOMAIN baseline) \ (DOMAIN current_keysums)
        res == DetectMoves([mv |-> <<>>, remaining_added |-> added_keys,
                            remaining_removed |-> removed_keys],
                           order, baseline, current_checksum_to_key)
    IN  /\ moves' = res.mv
        /\ additions' = res.remaining_added
        /\ removals' = res.remaining_removed
        /\ baseline' = current_keysums
        /\ monitored' = TRUE
        /\ written' = {}
        /\ op' = OpRec("monitor", "ok", DoesNotExist)
        /\ UNCHANGED <<watchList, desyncedList, files, cacheKeys, cacheDoc,
                       stampFresh>>
        /\ UNCHANGED storeVars

Monitor ==
    \E order \in Perms((DOMAIN baseline) \ LeafPaths(data)),
       current_checksum_to_key \in ReverseIndexes(update_keysums(data)) :
        MonitorBody(order, current_checksum_to_key)

\* add_watch comparing the documents instead of their leaf-path sets
AddWatchComparesValues(path) ==
    LET c == _getCacheFile(cacheKeys, cacheDoc, stampFresh, files, path)
    IN  /\ IF path \in Range(watchList) \/ path = BaseHandle
               THEN /\ op' = OpRec("add_watch", "return", DoesNotExist)
                    /\ UNCHANGED <<watchList, desyncedList, cacheKeys,
                                   cacheDoc, stampFresh>>
               ELSE /\ cacheKeys' = c.ck
                    /\ cacheDoc' = c.cd
                    /\ stampFresh' = c.sf
                    /\ IF data # c.raw
                          THEN /\ desyncedList' = Append(desyncedList, path)
                               /\ UNCHANGED watchList
                          ELSE /\ watchList' = Append(watchList, path)
                               /\ UNCHANGED desyncedList
                    /\ op' = OpRec("add_watch",
                                   IF data # c.raw THEN "desynced"
                                                   ELSE "watched",
                                   DoesNotExist)
        /\ written' = {}
        /\ UNCHANGED <<baseline, monitored, moves, additions, removals, files>>
        /\ UNCHANGED storeVars

\* SyncDict.add_watch
AddWatch(path) ==
    LET c == _getCacheFile(cacheKeys, cacheDoc, stampFresh, files, path)
        watched_keys == LeafPaths(c.raw)
        base_keys == LeafPaths(data)
    IN  /\ IF path \in Range(watchList) \/ path = BaseHandle
               THEN /\ op' = OpRec("add_watch", "return", DoesNotExist)
                    /\ UNCHANGED <<watchList, desyncedList, cacheKeys,
                                   cacheDoc, stampFresh>>
               ELSE /\ cacheKeys' = c.ck
                    /\ cacheDoc' = c.cd
                    /\ stampFresh' = c.sf
                    /\ IF base_keys # watched_keys
                          THEN /\ desyncedList' = Append(desyncedList, path)
                               /\ UNCHANGED watchList
                          ELSE /\ watchList' = Append(watchList, path)
                               /\ UNCHANGED desyncedList
                    /\ op' = OpRec("add_watch",
                                   IF base_keys # watched_keys
                                       THEN "desynced" ELSE "watched",
                                   DoesNotExist)
        /\ written' = {}
        /\ UNCHANGED <<baseline, monitored, moves, additions, removals, files>>
        /\ UNCHANGED storeVars

(***************************************************************************)
(* The store on its own: a DiffDict built on an initial document and       *)
(* driven through its API.                                                 *)
(***************************************************************************)
OneKey(k, v) == Dict([x \in {k} |-> v])
TwoKeys(k1, v1, k2, v2) == Dict([x \in {k1, k2} |-> IF x = k1 THEN v1 ELSE v2])

StoreInitDocs ==
    {EmptyDict, OneKey("a", Int1), OneKey("a", OneKey("b", Int1)),
     OneKey("l", List(<<Int1>>))}
StorePaths == {<<"a">>, <<"a", "b">>, <<"l", "0">>, <<"l", "1">>}
StoreValues == {Int1, Int2, Str1, BoolTrue, PyNone}
PopDefaults == {DoesNotExist, PyNone, Int2}

SyncIdle ==
    /\ baseline = EmptyFn
    /\ monitored = FALSE
    /\ moves = <<>>
    /\ additions = {}
    /\ removals = {}
    /\ watchList = <<>>
    /\ desyncedList = <<>>
    /\ files = [h \in {} |-> NoFile]
    /\ cacheKeys = <<>>
    /\ cacheDoc = [h \in {} |-> NoFile]
    /\ stampFresh = [h \in {} |-> FALSE]
    /\ written = {}

InitStore ==
    /\ data \in StoreInitDocs
    /\ keysums = EmptyFn
    /\ changes = <<>>
    /\ callbacks = <<>>
    /\ useHexCheck = FALSE
    /\ cbLog = <<>>
    /\ op = OpRec("init", "ok", DoesNotExist)
    /\ view = NoView
    /\ SyncIdle

NextStore ==
    \/ \E key \in StorePaths, value \in StoreValues :
           Len(changes) < MaxChanges /\ SetItem(key, value)
               /\ UNCHANGED syncVars /\ UNCHANGED clientVars
    \/ \E key \in StorePaths, default \in PopDefaults :
           Len(changes) < MaxChanges /\ Pop(key, default)
               /\ UNCHANGED syncVars /\ UNCHANGED clientVars
    \/ AddCallback /\ UNCHANGED syncVars /\ UNCHANGED clientVars
    \/ \E value \in BOOLEAN :
           SetUseHexCheck(value) /\ UNCHANGED syncVars /\ UNCHANGED clientVars

SpecStore == InitStore /\ [][NextStore]_vars

(***************************************************************************)
(* The store under external modification: a DiffDict whose document is     *)
(* also written through dataref, reconciled with updateAtKey and           *)
(* update_all, pruned, and read through the changes property.              *)
(***************************************************************************)
TrackInitDocs == {EmptyDict, OneKey("a", OneKey("b", Int1))}
TrackPaths == {<<"a">>, <<"a", "b">>}
TrackValues == {Int1, Int2}

InitTrack ==
    /\ data \in TrackInitDocs
    /\ keysums = EmptyFn
    /\ changes = <<>>
    /\ callbacks = <<>>
    /\ useHexCheck = FALSE
    /\ cbLog = <<>>
    /\ op = OpRec("init", "ok", DoesNotExist)
    /\ view = NoView
    /\ SyncIdle

NextTrack ==
    \/ \E key \in TrackPaths, value \in TrackValues :
           Len(changes) < MaxTrackChanges /\ SetItem(key, value)
               /\ UNCHANGED syncVars /\ UNCHANGED clientVars
    \/ \E key \in TrackPaths :
           Len(changes) < MaxTrackChanges /\ Pop(key, DoesNotExist)
               /\ UNCHANGED syncVars /\ UNCHANGED clientVars
    \/ \E key \in TrackPaths, value \in TrackValues :
           DatarefSet(key, value)
               /\ UNCHANGED syncVars /\ UNCHANGED clientVars
    \/ \E key \in TrackPaths :
           DatarefPop(key) /\ UNCHANGED syncVars /\ UNCHANGED clientVars
    \/ \E key \in TrackPaths :
           Len(changes) < MaxTrackChanges /\ UpdateAtKey(key)
               /\ UNCHANGED syncVars /\ UNCHANGED clientVars
    \/ \E include_new_keys \in BOOLEAN, order \in Perms(DOMAIN keysums) :
           \E newOrder \in IF include_new_keys
                              THEN Perms(new_keys(AfterTracked(order).ks, data))
                              ELSE {<<>>} :
               Len(changes) < MaxTrackChanges
                   /\ UpdateAll(include_new_keys, order, newOrder)
                   /\ UNCHANGED syncVars /\ UNCHANGED clientVars
    \/ AddCallback /\ UNCHANGED syncVars /\ UNCHANGED clientVars

SpecTrack == InitTrack /\ [][NextTrack]_vars

(***************************************************************************)
(* The ledger and its readers: a DiffDict that is written, pruned, and     *)
(* read through the changes property.                                      *)
(***************************************************************************)
LedgerPaths == {<<"a">>}
LedgerValues == {Int1, Int2}
PruneKeeps == (0 - 1)..(MaxLedger + 1)
\* an entry a caller appends to the list it got from the changes property
ForgedEntry == DiffSet(<<"forged">>, Absent, Absent)

InitLedger ==
    /\ data = EmptyDict
    /\ keysums = EmptyFn
    /\ changes = <<>>
    /\ callbacks = <<>>
    /\ useHexCheck = FALSE
    /\ cbLog = <<>>
    /\ op = OpRec("init", "ok", DoesNotExist)
    /\ view = NoView
    /\ SyncIdle

NextLedger ==
    \/ \E key \in LedgerPaths, value \in LedgerValues :
           Len(changes) < MaxLedger /\ SetItem(key, value)
               /\ UNCHANGED syncVars /\ UNCHANGED clientVars
    \/ \E key \in LedgerPaths :
           Len(changes) < MaxLedger /\ Pop(key, DoesNotExist)
               /\ UNCHANGED syncVars /\ UNCHANGED clientVars
    \/ \E keep \in PruneKeeps :
           PruneChanges(keep) /\ view' = Detached(view, changes)
               /\ UNCHANGED syncVars
    \/ FetchChanges /\ UNCHANGED syncVars
    \/ ViewAssign /\ UNCHANGED syncVars
    \/ view.held /\ Len(ViewAll) < MaxLedger /\ ViewAppend(ForgedEntry)
           /\ UNCHANGED syncVars

SpecLedger == InitLedger /\ [][NextLedger]_vars

(***************************************************************************)
(* The engine: a SyncDict built on a base file, with two dependent files.  *)
(***************************************************************************)
\* a base document and the dependent documents that may accompany it
SyncScenarios ==
    {[base |-> TwoKeys("a", Int1, "l", List(<<Int1, Int2>>)),
      dep1 |-> {TwoKeys("a", StrX, "l", List(<<StrY, StrZ>>)),
                TwoKeys("a", PyNone, "l", List(<<StrY, StrZ>>))},
      dep2 |-> {TwoKeys("a", OneKey("b", StrX), "l", List(<<StrY, StrZ>>))}],
     [base |-> OneKey("a", OneKey("b", Int1)),
      dep1 |-> {OneKey("a", OneKey("b", StrX))},
      dep2 |-> {OneKey("a", TwoKeys("b", StrY, "c", PyNone))}]}
SyncPaths == {<<"a">>, <<"a", "b">>, <<"a", "c">>, <<"l">>, <<"l", "0">>, <<"l", "0", "x">>}
SyncValues == {Int1, Int2}

\* SyncDict.__init__ on the base file, the dependent files on disk
InitSync ==
    \E sc \in SyncScenarios :
        /\ data = sc.base
        /\ \E d1 \in sc.dep1, d2 \in sc.dep2 :
               files = [h \in Handles \cup {BaseHandle} |->
                           IF h = BaseHandle THEN sc.base
                           ELSE IF h = "h1" THEN d1 ELSE d2]
        /\ keysums = EmptyFn
        /\ changes = <<>>
        /\ callbacks = <<>>
        /\ useHexCheck = FALSE
        /\ cbLog = <<>>
        /\ cacheKeys = <<BaseHandle>>
        /\ cacheDoc = [h \in {BaseHandle} |-> sc.base]
        /\ stampFresh = [h \in {BaseHandle} |-> TRUE]
        /\ baseline = update_keysums(sc.base)
        /\ monitored = FALSE
        /\ moves = <<>>
        /\ additions = {}
        /\ removals = {}
        /\ watchList = <<>>
        /\ desyncedList = <<>>
        /\ written = {}
        /\ view = NoView
        /\ op = OpRec("init", "ok", DoesNotExist)

NextSync ==
    \/ \E key \in SyncPaths, value \in SyncValues :
           /\ Len(changes) < MaxSyncEdits
           /\ SetItem(key, value)
           /\ written' = {}
           /\ UNCHANGED <<baseline, monitored, moves, additions, removals,
                          watchList, desyncedList, files, cacheKeys, cacheDoc,
                          stampFresh, view>>
    \/ \E key \in SyncPaths :
           /\ Len(changes) < MaxSyncEdits
           /\ Pop(key, DoesNotExist)
           /\ written' = {}
           /\ UNCHANGED <<baseline, monitored, moves, additions, removals,
                          watchList, desyncedList, files, cacheKeys, cacheDoc,
                          stampFresh, view>>
    \/ \E path \in Handles \cup {BaseHandle} :
           Len(desyncedList) < MaxDesynced /\ AddWatch(path)
               /\ UNCHANGED clientVars
    \/ Monitor /\ UNCHANGED clientVars
    \/ \E addOrder \in Perms(additions), remOrder \in Perms(removals),
          unreadable \in SUBSET Handles :
           ApplyChanges(addOrder, remOrder, unreadable)
               /\ UNCHANGED clientVars

SpecSync == InitSync /\ [][NextSync]_vars

(***************************************************************************)
(* Properties of the store.                                                *)
(***************************************************************************)
\* what get(path) returns, DoesNotExist when the path does not resolve
Get(doc, path) == deep_get(doc, path, DoesNotExist)
Resolves(doc, path) == Get(doc, path) # DoesNotExist

\* C8: a set(path, value) whose value has the fingerprint of the value stored
\* at path appends no ledger entry, fires no callback and leaves the document
\* unchanged, for top-level and nested paths, whether the stored value came
\* from the initial document or from an earlier set.
C8_SetSameFingerprintIsNoOp ==
    [][\A key \in StorePaths, value \in StoreValues :
          (/\ SetItem(key, value)
           /\ Resolves(data, key)
           /\ Fingerprint(Get(data, key)) = Fingerprint(value))
          => /\ changes' = changes
             /\ cbLog' = <<>>
             /\ data' = data]_vars

\* C9: a set(path, value) on a path that does not resolve, or whose stored
\* value has another fingerprint than value, writes the value, so that
\* get(path) returns it, and appends exactly one ledger entry with key = path
\* and new = fingerprint(value).  Stated of the sets that return.
C9_SetWritesAndRecords ==
    [][\A key \in StorePaths, value \in StoreValues :
          (/\ SetItem(key, value)
           /\ op'.res \notin {"IndexError", "KeyError"}
           /\ \/ ~Resolves(data, key)
              \/ Fingerprint(Get(data, key)) # Fingerprint(value))
          => /\ Get(data', key) = value
             /\ Len(changes') = Len(changes) + 1
             /\ SubSeq(changes', 1, Len(changes)) = changes
             /\ changes'[Len(changes')].key = key
             /\ changes'[Len(changes')].new = Fingerprint(value)]_vars

\* C10: a delete(path) on a path that does not resolve raises KeyError when
\* no default is supplied and returns the default when one is; either way the
\* document, the ledger and the fingerprint cache stay as they are and no
\* callback fires.
C10_PopMissing ==
    [][\A key \in StorePaths, default \in PopDefaults :
          (Pop(key, default) /\ ~Resolves(data, key))
          => /\ op'.res = IF default = DoesNotExist THEN "KeyError"
                                                   ELSE "default"
             /\ default # DoesNotExist => op'.ret = default
             /\ data' = data
             /\ changes' = changes
             /\ keysums' = keysums
             /\ cbLog' = <<>>]_vars

\* a delete of a missing path returned its default on a store that has a
\* ledger, a cache and a callback to disturb
C10_Witness ==
    /\ op.name = "pop"
    /\ op.res = "default"
    /\ op.ret = PyNone
    /\ changes # <<>>
    /\ keysums # EmptyFn
    /\ callbacks # <<>>

(***************************************************************************)
(* Properties of the engine.                                               *)
(***************************************************************************)
MoveSources == {moves[i][1] : i \in 1..Len(moves)}
MoveTargets == {moves[i][2] : i \in 1..Len(moves)}
\* the handles that are watched before and after a step
StillWatched == Range(watchList) \cap Range(watchList')
\* the step is an applyChanges() that found a monitor() result to apply
Applied == op'.name = "applyChanges" /\ op'.res = "applied"
\* the document _getCacheFile hands out for a handle
LoadedDoc(h) == _getCacheFile(cacheKeys, cacheDoc, stampFresh, files, h).raw

\* C1: applyChanges() moves, in every watched document, the document's own
\* leaf value from the old path of every move to its new path, and leaves
\* nothing at the old path.
C1_MovePreservesDependentValue ==
    [][Applied =>
          \A h \in StillWatched : \A i \in 1..Len(moves) :
              moves[i][1] \in LeafPaths(files[h]) =>
                  /\ Get(files'[h], moves[i][2]) = Get(files[h], moves[i][1])
                  /\ ~Resolves(files'[h], moves[i][1])]_vars

\* the leaf paths of the baseline that the last monitor() replaced
BaselineKeysBefore ==
    (((DOMAIN baseline) \ additions) \ MoveTargets) \cup removals
        \cup MoveSources

\* C2: when applyChanges() directly follows monitor(), every watched document
\* that had the leaf paths of the previous baseline, and is still watched,
\* has the leaf paths of the base document afterwards.
C2_StructurallyAligned ==
    [][(op.name = "monitor" /\ Applied) =>
          \A h \in StillWatched :
              LeafPaths(files[h]) = BaselineKeysBefore =>
                  LeafPaths(files'[h]) = LeafPaths(data')]_vars

\* C3: after applyChanges() a watched document holds the base document's
\* value at every added path it had no value at, and its own value at every
\* added path it had one at.
C3_AdditionSeedsBaseValue ==
    [][Applied =>
          \A h \in StillWatched : \A p \in additions :
              Get(files'[h], p) = IF Resolves(files[h], p)
                                      THEN Get(files[h], p)
                                      ELSE Get(data, p)]_vars

\* C4: after applyChanges() no watched document has a value at a removed
\* path, and every leaf that is not touched by the monitor() result keeps its
\* own value.
C4_RemovalDeletesOnlyRemoved ==
    [][Applied =>
          \A h \in StillWatched :
              /\ \A p \in removals : ~Resolves(files'[h], p)
              /\ \A q \in LeafPaths(files[h]) \
                          (removals \cup additions \cup MoveSources
                               \cup MoveTargets) :
                     Get(files'[h], q) = Get(files[h], q)]_vars

\* C5: addWatch on a handle that is neither the base nor watched admits it to
\* watched when the loaded document has the leaf paths of the base document,
\* and to desynced otherwise.
C5_AddWatchAdmission ==
    [][\A path \in Handles :
          (AddWatch(path) /\ path \notin Range(watchList)) =>
              IF LeafPaths(LoadedDoc(path)) = LeafPaths(data)
                  THEN /\ watchList' = Append(watchList, path)
                       /\ desyncedList' = desyncedList
                  ELSE /\ path \in Range(desyncedList')
                       /\ watchList' = watchList]_vars

\* addWatch has admitted a document that has the structure of the base and
\* values of its own
C5_Witness ==
    /\ op.name = "add_watch"
    /\ op.res = "watched"
    /\ LeafPaths(files[watchList[Len(watchList)]]) = LeafPaths(data)
    /\ files[watchList[Len(watchList)]] # data

\* C6: applyChanges() neither modifies nor rewrites the document of a handle
\* that is in desynced.
C6_DesyncedNeverRewritten ==
    [][op'.name = "applyChanges" =>
          \A h \in Range(desyncedList) :
              files'[h] = files[h] /\ h \notin written']_vars

\* C7: applyChanges() returns, moves every watched handle whose processing
\* raised to desynced, and reconciles and persists every other watched
\* handle in the same pass.
C7_FailureIsolated ==
    [][\A addOrder \in Perms(additions), remOrder \in Perms(removals),
          unreadable \in SUBSET Handles :
          (ApplyChanges(addOrder, remOrder, unreadable) /\ monitored) =>
              /\ op'.res = "applied"
              /\ (unreadable \cap Range(watchList)) \subseteq op'.ret.hs
              /\ \A h \in Range(watchList) :
                     IF h \in op'.ret.hs
                         THEN /\ h \notin Range(watchList')
                              /\ h \in Range(desyncedList')
                              /\ files'[h] = files[h]
                         ELSE /\ h \in Range(watchList')
                              /\ h \in written'
                              /\ files'[h] =
                                     Reconcile(LoadedDoc(h), data, moves,
                                               addOrder, remOrder).doc]_vars

\* one pass in which a handle failed and another was reconciled and persisted
C7_Witness ==
    /\ op.name = "applyChanges"
    /\ op.ret.hs # {}
    /\ written # {}
    /\ \E h \in written : h \in Range(watchList)
    /\ \A h \in op.ret.hs : h \in Range(desyncedList)

(***************************************************************************)
(* Properties of reconciliation (updateAtKey, update_all).                 *)
(***************************************************************************)
\* C11: markChanged(path) on a tracked path that resolves appends exactly one
\* ledger entry (previous = the cached fingerprint, new = the fingerprint of
\* the current value) and caches the new fingerprint when the two differ, and
\* appends nothing when they are equal.
C11_MarkChangedRecordsIffChanged ==
    [][\A key \in TrackPaths :
          (UpdateAtKey(key) /\ Resolves(data, key) /\ key \in DOMAIN keysums)
          => IF Fingerprint(Get(data, key)) # keysums[key]
                 THEN /\ changes' =
                             Append(changes,
                                    DiffSet(key, keysums[key],
                                            Fingerprint(Get(data, key))))
                      /\ keysums' = MapSet(keysums, key,
                                           Fingerprint(Get(data, key)))
                 ELSE /\ changes' = changes
                      /\ keysums' = keysums]_vars

\* markChanged has recorded a value that was modified behind the store, and
\* on another occasion found a tracked value unmodified
C11_Witness ==
    /\ op.name = "updateAtKey"
    /\ op.res = "recorded"
    /\ changes[Len(changes)].previous # Absent
    /\ changes[Len(changes)].previous # changes[Len(changes)].new
    /\ keysums[changes[Len(changes)].key] = changes[Len(changes)].new

\* the tracked paths that do not resolve in the document
Unresolved(ks, doc) == {k \in DOMAIN ks : ~Resolves(doc, k)}
\* the keys of the entries a step appended to the ledger
AppendedKeys ==
    {changes'[i].key : i \in (Len(changes) + 1)..Len(changes')}

\* C12: reconcileAll() reports in orphaned exactly the tracked paths that no
\* longer resolve, removes them from the fingerprint cache and appends no
\* ledger entry for them; a reconcileAll() that directly follows reports none.
C12_OrphanedReportedOnce ==
    [][op'.name = "update_all" =>
          /\ op'.ret.orphaned = Unresolved(keysums, data)
          /\ (DOMAIN keysums') \cap Unresolved(keysums, data) = {}
          /\ AppendedKeys \cap Unresolved(keysums, data) = {}
          /\ op.name = "update_all" => op'.ret.orphaned = {}]_vars

\* reconcileAll has reported an orphaned path and untracked it
C12_Witness ==
    /\ op.name = "update_all"
    /\ op.ret.orphaned # {}
    /\ op.ret.orphaned \cap DOMAIN keysums = {}
    /\ DOMAIN keysums # {}

\* C13: reconcileAll(trackNewPaths=true) starts tracking every leaf path of
\* the document that is not in the fingerprint cache, at any depth, reports
\* exactly those as newlyTracked, and tracks nothing else.
C13_TracksNewLeafPaths ==
    [][(op'.name = "update_all" /\ op'.res = "new") =>
          /\ op'.ret.new_tracked = LeafPaths(data) \ DOMAIN keysums
          /\ (DOMAIN keysums') \ (DOMAIN keysums) =
                 LeafPaths(data) \ DOMAIN keysums]_vars

\* C15: every operation that appends a ledger entry (set, delete,
\* markChanged) invokes every registered callback once, in registration
\* order, with the appended entry as the last of the ledger; an operation
\* that appends nothing invokes none.
C15_CallbacksAfterAppend ==
    [][op'.name \in {"set", "pop", "updateAtKey"} =>
          IF changes' # changes
              THEN /\ Len(changes') = Len(changes) + 1
                   /\ Len(cbLog') = Len(callbacks)
                   /\ \A i \in 1..Len(callbacks) :
                          /\ cbLog'[i].cb = callbacks[i]
                          /\ cbLog'[i].last = changes'[Len(changes')]
              ELSE cbLog' = <<>>]_vars

\* two callbacks have run after a markChanged that recorded an entry
C15_Witness ==
    /\ op.name = "updateAtKey"
    /\ op.res = "recorded"
    /\ Len(callbacks) = 2
    /\ Len(cbLog) = 2
    /\ cbLog[1].cb # cbLog[2].cb

(***************************************************************************)
(* Properties of the ledger and its readers.                               *)
(***************************************************************************)
\* C14: prune(keep) leaves the last min(keep, length) entries in their order
\* when keep > 0 and none when keep <= 0, leaves the document and the
\* fingerprint cache alone, and what is appended next follows what was kept.
C14_PruneKeepsNewest ==
    [][/\ \A keep \in PruneKeeps :
              PruneChanges(keep) =>
                  LET n == Len(changes)
                      m == IF keep <= 0 THEN 0
                           ELSE IF keep < n THEN keep ELSE n
                  IN  /\ Len(changes') = m
                      /\ \A i \in 1..m : changes'[i] = changes[n - m + i]
                      /\ data' = data
                      /\ keysums' = keysums
       /\ (op.name = "prune_changes" /\ op'.name \in {"set", "pop"}) =>
              /\ Len(changes') >= Len(changes)
              /\ SubSeq(changes', 1, Len(changes)) = changes]_vars

\* a prune has cut a ledger of two different entries down to the newer one
C14_Witness ==
    /\ op.name = "prune_changes"
    /\ view.held
    /\ ~view.live
    /\ Len(view.all) = 2
    /\ view.all[1] # view.all[2]
    /\ changes = <<view.all[2]>>

\* C16: no operation on a view returned by ledger() alters the store's
\* ledger, and the entries and last of a held view stay as they are while the
\* store is mutated.
C16_ViewIsImmutableSnapshot ==
    [][/\ op'.name \in {"view_assign", "view_append"} => changes' = changes
       /\ (view.held /\ op'.name \in {"set", "pop", "prune_changes"}) =>
              /\ ViewAll' = ViewAll
              /\ view'.last = view.last]_vars

(***************************************************************************)
(* Properties of the handles of the engine.                                *)
(***************************************************************************)
Watched(wl, h) == h \in Range(wl)
Desynced(wl, dl, h) == h \in Range(dl) /\ h \notin Range(wl)
Untracked(wl, dl, h) == h \notin Range(wl) /\ h \notin Range(dl)
\* h occurs in q more than once
Twice(q, h) == Cardinality({i \in 1..Len(q) : q[i] = h}) > 1

\* C17: a handle that is desynced never becomes watched, a watched handle
\* stays watched or becomes desynced, and no handle goes back to untracked.
C17_HandleStatusOneWay ==
    [][\A h \in Handles :
          /\ Desynced(watchList, desyncedList, h) =>
                 Desynced(watchList', desyncedList', h)
          /\ Watched(watchList, h) =>
                 ~Untracked(watchList', desyncedList', h)
          /\ h \in Range(desyncedList) => ~Watched(watchList', h)]_vars

\* C18: watched and desynced are disjoint, neither holds a handle twice, and
\* neither holds the base handle.
C18_WatchedDesyncedDisjoint ==
    /\ Range(watchList) \cap Range(desyncedList) = {}
    /\ \A h \in Handles : ~Twice(watchList, h) /\ ~Twice(desyncedList, h)
    /\ BaseHandle \notin Range(watchList) \cup Range(desyncedList)

\* C19: after monitor() the baseline is the leaf-path -> fingerprint map of
\* the base document, and a monitor() on a document that has not been edited
\* since returns empty added, removed and moved.
C19_MonitorRebasesBaseline ==
    [][op'.name = "monitor" =>
          /\ baseline' = update_keysums(data')
          /\ (op.name = "monitor" \/ baseline = update_keysums(data)) =>
                 /\ additions' = {}
                 /\ removals' = {}
                 /\ moves' = <<>>]_vars

\* a monitor() has returned an empty result on a base document whose leaf
\* paths are no longer those of the file it was loaded from
C19_Witness ==
    /\ op.name = "monitor"
    /\ additions = {}
    /\ removals = {}
    /\ moves = <<>>
    /\ LeafPaths(data) # LeafPaths(files[BaseHandle])
    /\ baseline = update_keysums(data)

(***************************************************************************)
(* Properties of fingerprinting.                                           *)
(***************************************************************************)
IsPrimitive(v) == v.t = "s" /\ v.ty \in {"str", "int", "float", "bool"}

\* C20: the fingerprint the store has computed for a primitive value it holds
\* differs from the fingerprint of every primitive value distinct from it.
C20_FingerprintInjective ==
    \A key \in StorePaths, w \in StoreValues :
        (/\ Resolves(data, key)
         /\ key \in DOMAIN keysums
         /\ keysums[key] = Fingerprint(Get(data, key))
         /\ IsPrimitive(Get(data, key))
         /\ IsPrimitive(w)
         /\ ~PyEq(Get(data, key), w))
        => keysums[key] # Fingerprint(w)

\* some proper prefix of path resolves to a scalar of the document
ScalarOnTheWay(doc, path) ==
    \E i \in 1..(Len(path) - 1) :
        /\ Resolves(doc, SubSeq(path, 1, i))
        /\ Get(doc, SubSeq(path, 1, i)).t = "s"

\* C21: a set(path, value) whose path runs through an existing scalar at an
\* intermediate segment fails with the invalid-path error (KeyError) and does
\* not replace the scalar: the document stays as it was.
C21_SetThroughScalarFails ==
    [][\A key \in StorePaths, value \in StoreValues :
          (SetItem(key, value) /\ ScalarOnTheWay(data, key))
          => /\ op'.res = "KeyError"
             /\ data' = data]_vars

\* C22: monitor() records a move for every removed path whose baseline
\* fingerprint equals the current fingerprint of an added path that is not
\* already paired, whatever other paths carry that fingerprint: after a
\* monitor no path left among the removals has the baseline fingerprint that
\* a path left among the additions has now.
C22_MonitorPairsEveryMatch ==
    [][op'.name = "monitor"
          => \A r \in removals', a \in additions' :
                 baseline[r] # update_keysums(data)[a]]_vars

C24_EntryAbsenceMatchesOperation ==
    [][(/\ op'.name \in {"set", "pop"}
        /\ Len(changes') = Len(changes) + 1)
          => LET e == changes'[Len(changes')]
             IN  /\ (e.previous = Absent) <=> ~Resolves(data, e.key)
                 /\ (e.new = Absent) <=> (op'.name = "pop")]_vars

\* C25: the document cache never holds more entries than its capacity, and
\* when the load of a handle that is not cached finds the cache full, the
\* entry evicted is the oldest one, so the handle just loaded is cached.
C25_CacheEvictsOldest ==
    [][/\ Len(cacheKeys') <= MaxSize
       /\ \A path \in Handles :
              (/\ AddWatch(path)
               /\ op'.res \in {"watched", "desynced"}
               /\ path \notin Range(cacheKeys)
               /\ Len(cacheKeys) = MaxSize)
              => /\ cacheKeys' = Append(Tail(cacheKeys), path)
                 /\ path \in DOMAIN cacheDoc']_vars

\* C26: a set(path, value) that raises, for an invalid path shape or an
\* index out of range, leaves the ledger, the fingerprint cache and the
\* document exactly as they were, and no callback has run.
C26_FailedSetChangesNothing ==
    [][\A key \in StorePaths, value \in StoreValues :
          (SetItem(key, value) /\ op'.res \in {"IndexError", "KeyError"})
          => /\ changes' = changes
             /\ keysums' = keysums
             /\ data' = data
             /\ cbLog' = <<>>]_vars

\* C27: every addition, removal and move returned by a monitor() is applied
\* by the next applyChanges(), even when monitor() is called again, and
\* returns an empty difference, before it: a monitor() that directly follows
\* a monitor() drops nothing from what applyChanges() is going to apply.
C27_SecondMonitorKeepsPending ==
    [][(op.name = "monitor" /\ op'.name = "monitor")
          => /\ additions \subseteq additions'
             /\ removals \subseteq removals'
             /\ Range(moves) \subseteq Range(moves')]_vars

\* C28: when a callback runs for a set or a delete, the document already
\* reflects the mutation: during the callback of a set(path, value)
\* get(path) returns value, and during the callback of a delete(path)
\* contains(path) is false.
C28_CallbackSeesMutation ==
    [][\A key \in StorePaths :
          /\ \A value \in StoreValues :
                 (SetItem(key, value) /\ op'.res = "written")
                 => \A i \in 1..Len(cbLog') :
                        Get(cbLog'[i].doc, key) = value
          /\ \A default \in PopDefaults :
                 (Pop(key, default) /\ op'.res = "popped")
                 => \A i \in 1..Len(cbLog') :
                        ~Resolves(cbLog'[i].doc, key)]_vars

\* every path of the fingerprint cache ks resolves in doc and its cached
\* fingerprint is the fingerprint of the value stored there
CacheMatches(ks, doc) ==
    \A key \in DOMAIN ks :
        /\ Resolves(doc, key)
        /\ ks[key] = Fingerprint(Get(doc, key))

\* C29: after any sequence of sets and deletes through the API, deleting or
\* overwriting a container that holds tracked paths included, every path in
\* the fingerprint cache resolves and its cached fingerprint is the
\* fingerprint of the stored value.  Stated as the step that keeps it: a set
\* or a delete that returns takes a store whose cache matches its document
\* to a store whose cache matches its document.
C29_CacheMatchesDocument ==
    [][(/\ op'.name \in {"set", "pop"}
        /\ op'.res \notin {"IndexError", "KeyError"}
        /\ CacheMatches(keysums, data))
          => CacheMatches(keysums', data')]_vars

\* C30: applyChanges() leaves unchanged, in every watched document, the
\* value at every leaf path that the last monitor() result names neither as
\* added, nor as removed, nor as the old or the new path of a move; so after
\* a base edit that changed leaf values only, no leaf value of a watched
\* document changes.
C30_ApplyChangesFrame ==
    [][Applied =>
          \A h \in StillWatched :
              \A q \in LeafPaths(files[h]) :
                  q \notin (additions \cup removals \cup MoveSources
                                \cup MoveTargets)
                  => Get(files'[h], q) = Get(files[h], q)]_vars
====
